---- MODULE Spec2Model ----
(***************************************************************************)
(* A model of src/main.py: the two request handlers index ("/") and graph  *)
(* ("/graph"), the helpers fetch_data and get_price_changes, and the       *)
(* pandas operations the handlers apply to the fetched OHLCV series.       *)
(*                                                                         *)
(* Representation.                                                         *)
(*  - A raw OHLCV bar is <<timestamp in ms, close>>; the open, high, low   *)
(*    and volume columns are read by no line of the program.               *)
(*  - A pandas Timestamp is its count of milliseconds since the epoch.     *)
(*  - A float is an exact rational <<numerator, denominator>> in lowest    *)
(*    terms with a positive denominator; NaN is <<0, 0>>.                  *)
(*  - A DataFrame is [none |-> FALSE, rows |-> sequence of row records];   *)
(*    Python's None is [none |-> TRUE, rows |-> <<>>].                     *)
(*  - A column value a merge may leave missing is [isna, v].               *)
(***************************************************************************)
EXTENDS Integers, Sequences, FiniteSets, TLC

VARIABLES
    feed,              \* which data universe the exchange serves (fixed per behaviour)
    handler,           \* "none", "index" or "graph": the route of the request
    pc,                \* the handler's position
    exchange,          \* "none", "open" or "closed": the ccxt.binance() handle
    ohlcv_btc,         \* what exchange.fetch_ohlcv returned for BTC/USDT
    ohlcv,             \* what exchange.fetch_ohlcv returned for each ticker symbol
    btc_data,          \* the handler's local btc_data
    ticker_symbols,    \* the handler's local ticker_symbols
    pending,           \* indexes of the gathered fetch_data tasks still running
    results,           \* the list asyncio.gather fills, one frame per ticker symbol
    i,                 \* position of the for loop over zip(ticker_symbols, results)
    matching_results,  \* index's accumulator
    graphs,            \* graph's accumulator
    response           \* what the handler returned

vars == <<feed, handler, pc, exchange, ohlcv_btc, ohlcv, btc_data, ticker_symbols,
          pending, results, i, matching_results, graphs, response>>

(***************************************************************************)
(* Bounds of the model.                                                    *)
(***************************************************************************)
MaxLen == 3        \* longest series of the general feed
MaxTime == 2       \* bars of the general feed sit at seconds 0..MaxTime
MaxClose == 2      \* closes of the general feed are 1..MaxClose
MaxPairLen == 2    \* longest series of the two-candidate feed, at seconds 0..MaxPairLen-1

(***************************************************************************)
(* Program constants.                                                      *)
(***************************************************************************)
MsPerSec == 1000   \* fetch_ohlcv timestamps are in ms (unit='ms'); delays are total_seconds()

UP == "UP"         \* the label 'рост'
DOWN == "DOWN"     \* the label 'спад'
NaNLabel == "NaN"  \* a missing direction_btc

\* The two labels in the order pandas sorts them: 'рост' < 'спад' (U+0440 < U+0441).
LabelOrder == <<UP, DOWN>>

correlation_threshold == <<4, 5>>   \* 0.8

BTCUSDT == [base |-> "BTC", quote |-> "USDT"]
ETHUSDT == [base |-> "ETH", quote |-> "USDT"]
LTCUSDT == [base |-> "LTC", quote |-> "USDT"]
ETHBTC == [base |-> "ETH", quote |-> "BTC"]

(***************************************************************************)
(* Arithmetic on floats, kept exact.                                       *)
(***************************************************************************)
Abs(x) == IF x < 0 THEN -x ELSE x

RECURSIVE GCD(_, _)
GCD(a, b) == IF b = 0 THEN a ELSE GCD(b, a % b)

NaN == <<0, 0>>

\* n / d for d > 0, in lowest terms.
Rat(n, d) == LET g == GCD(Abs(n), d) IN <<n \div g, d \div g>>

RatAdd(a, b) == Rat(a[1] * b[2] + b[1] * a[2], a[2] * b[2])

RECURSIVE Sum(_)
Sum(xs) == IF xs = <<>> THEN <<0, 1>> ELSE RatAdd(xs[1], Sum(Tail(xs)))

\* A faulty variant of Mean: the aggregation 'sum' in place of 'mean'.
MeanAsSum(xs) == Sum(xs)

\* The aggregation 'mean' of a non-empty column of floats.
Mean(xs) == LET s == Sum(xs) IN Rat(s[1], s[2] * Len(xs))

SetMax(S) == CHOOSE x \in S : \A y \in S : y <= x

(***************************************************************************)
(* fetch_data and get_price_changes.                                       *)
(***************************************************************************)
None == [none |-> TRUE, rows |-> <<>>]

\* pd.DataFrame(ohlcv, columns=[...]) with the timestamp column converted.
DataFrame(bars) ==
    [none |-> FALSE,
     rows |-> [k \in 1..Len(bars) |-> [timestamp |-> bars[k][1], close |-> bars[k][2]]]]

\* An outcome of exchange.fetch_ohlcv is [raised, bars]: the try/except of
\* fetch_data turns an exception into None.
fetch_data(outcome) == IF outcome.raised THEN None ELSE DataFrame(outcome.bars)

\* Series.pct_change(): NaN for the first row, then (close - previous) / previous.
pct_change(rows, k) ==
    IF k = 1 THEN NaN ELSE Rat(rows[k].close - rows[k - 1].close, rows[k - 1].close)

\* A faulty variant of Positive: price_change >= 0.
NonNegative(x) == x[2] # 0 /\ x[1] >= 0

\* A faulty variant of Positive: NOT (price_change <= 0), which NaN satisfies.
NotNonPositive(x) == ~(x[2] # 0 /\ x[1] <= 0)

\* price_change > 0; a comparison with NaN is False.
Positive(x) == x[2] # 0 /\ x[1] > 0

\* np.where(data['price_change'] > 0, 'рост', 'спад')
Direction(x) == IF Positive(x) THEN UP ELSE DOWN

get_price_changes(data) ==
    [data EXCEPT !.rows =
        [k \in 1..Len(data.rows) |->
            [timestamp |-> data.rows[k].timestamp,
             close |-> data.rows[k].close,
             price_change |-> pct_change(data.rows, k),
             direction |-> Direction(pct_change(data.rows, k))]]]

(***************************************************************************)
(* pd.merge_asof(left, right, on='timestamp'): direction 'backward' with   *)
(* exact matches allowed. Both key columns are sorted ascending (the       *)
(* exchange returns bars in time order), so the match of a left row is the *)
(* last right row whose timestamp is <= the left row's.                    *)
(***************************************************************************)
AsofIndex(right, t) ==
    LET J == {j \in 1..Len(right) : right[j].timestamp <= t}
    IN IF J = {} THEN 0 ELSE SetMax(J)

Missing == [isna |-> TRUE, v |-> 0]
Val(x) == [isna |-> FALSE, v |-> x]

\* index: merge_asof(altcoin_data, btc_data[['timestamp', 'direction', 'close']])
MergeAsofDirection(left, right) ==
    [k \in 1..Len(left) |->
        LET j == AsofIndex(right, left[k].timestamp)
        IN [timestamp |-> left[k].timestamp,
            close |-> left[k].close,
            price_change |-> left[k].price_change,
            direction |-> left[k].direction,
            direction_btc |-> IF j = 0 THEN NaNLabel ELSE right[j].direction,
            close_btc |-> IF j = 0 THEN Missing ELSE Val(right[j].close)]]

\* graph: merge_asof(altcoin_data[['timestamp', 'close']], btc_data[['timestamp', 'close']])
MergeAsofClose(left, right) ==
    [k \in 1..Len(left) |->
        LET j == AsofIndex(right, left[k].timestamp)
        IN [timestamp |-> left[k].timestamp,
            close |-> left[k].close,
            close_btc |-> IF j = 0 THEN Missing ELSE Val(right[j].close)]]

(***************************************************************************)
(* index: the rows where the directions agree, their delays, the groups.   *)
(***************************************************************************)
AgreesWithBtc(row) == row.direction = row.direction_btc

\* merged_data[merged_data['direction'] == merged_data['direction_btc']]
MatchingData(merged_data) == SelectSeq(merged_data, AgreesWithBtc)

\* timedelta.total_seconds()
total_seconds(ms) == Rat(ms, MsPerSec)

\* A faulty variant of BtcChangeTime: the filter on row['timestamp'] left out.
BtcChangeTimeUnfiltered(t, btc_rows) ==
    SetMax({btc_rows[j].timestamp : j \in 1..Len(btc_rows)})

\* btc_data.loc[btc_data['timestamp'] <= row['timestamp'], 'timestamp'].max()
BtcChangeTime(t, btc_rows) ==
    SetMax({btc_rows[j].timestamp : j \in {j \in 1..Len(btc_rows) : btc_rows[j].timestamp <= t}})

calculate_time_delay_and_times(row, btc_rows) ==
    LET btc_change_time == BtcChangeTime(row.timestamp, btc_rows)
    IN [time_delay |-> total_seconds(row.timestamp - btc_change_time),
        btc_time |-> btc_change_time,
        altcoin_time |-> row.timestamp]

\* matching_data.join(matching_data.apply(calculate_time_delay_and_times, axis=1, ...))
JoinTimes(matching_data, btc_rows) ==
    [k \in 1..Len(matching_data) |->
        LET d == calculate_time_delay_and_times(matching_data[k], btc_rows)
        IN [timestamp |-> matching_data[k].timestamp,
            close |-> matching_data[k].close,
            direction |-> matching_data[k].direction,
            direction_btc |-> matching_data[k].direction_btc,
            time_delay |-> d.time_delay,
            btc_time |-> d.btc_time,
            altcoin_time |-> d.altcoin_time]]

Column(rows, key) == [k \in 1..Len(rows) |-> rows[k][key]]

RECURSIVE FirstSeen(_)
\* The distinct values of a column in the order of their first occurrence.
FirstSeen(xs) ==
    IF xs = <<>> THEN <<>>
    ELSE LET rest == FirstSeen(SubSeq(xs, 1, Len(xs) - 1))
             last == xs[Len(xs)]
         IN IF \E k \in 1..Len(rest) : rest[k] = last THEN rest ELSE Append(rest, last)

\* A faulty variant of GroupKeys: groupby(..., sort=False).
GroupKeysUnsorted(xs) == FirstSeen(xs)

\* The group keys of groupby(['direction_btc']): sort=True is the default,
\* so the keys present come in sorted order.
GroupKeys(xs) ==
    LET present(label) == \E k \in 1..Len(xs) : xs[k] = label
    IN SelectSeq(LabelOrder, present)

Count(xs, x) == Cardinality({k \in 1..Len(xs) : xs[k] = x})

\* x.mode()[0]: the most frequent value, the smallest one on a tie.
Mode0(xs) ==
    LET best(label) == Count(xs, label) > 0 /\ \A k \in 1..Len(xs) : Count(xs, xs[k]) <= Count(xs, label)
    IN SelectSeq(LabelOrder, best)[1]

\* matching_data.groupby(['direction_btc']).agg({...}).reset_index()
GroupByDirection(joined) ==
    LET keys == GroupKeys(Column(joined, "direction_btc"))
    IN [g \in 1..Len(keys) |->
           LET inGroup(row) == row.direction_btc = keys[g]
               group == SelectSeq(joined, inGroup)
           IN [direction_btc |-> keys[g],
               time_delay |-> Mean(Column(group, "time_delay")),
               btc_time |-> group[1].btc_time,
               altcoin_time |-> group[1].altcoin_time,
               direction |-> Mode0(Column(group, "direction"))]]

\* matching_data[['timestamp', 'close', 'direction', 'btc_time', 'altcoin_time']]
FullData(joined) ==
    [k \in 1..Len(joined) |->
        [timestamp |-> joined[k].timestamp,
         close |-> joined[k].close,
         direction |-> joined[k].direction,
         btc_time |-> joined[k].btc_time,
         altcoin_time |-> joined[k].altcoin_time]]

\* The dict index appends for a symbol.
IndexEntry(symbol, matching_data, btc_rows) ==
    LET joined == JoinTimes(matching_data, btc_rows)
    IN [altcoin_pair |-> symbol,
        result |-> GroupByDirection(joined),
        full_data |-> FullData(joined)]

\* A faulty variant of IndexBody: the test `if not matching_data.empty` left out.
IndexBodyNoEmptyCheck(acc, symbol, altcoin_rows, btc_rows) ==
    Append(acc, IndexEntry(symbol, MatchingData(MergeAsofDirection(altcoin_rows, btc_rows)), btc_rows))

\* The body of index's loop for one classified candidate.
IndexBody(acc, symbol, altcoin_rows, btc_rows) ==
    LET merged_data == MergeAsofDirection(altcoin_rows, btc_rows)
        matching_data == MatchingData(merged_data)
    IN IF matching_data = <<>> THEN acc
       ELSE Append(acc, IndexEntry(symbol, matching_data, btc_rows))

(***************************************************************************)
(* graph: the Pearson correlation of close with close_btc. Series.corr     *)
(* drops the rows where either value is missing; fewer than min_periods=1  *)
(* rows left, a single row, or a column without variance give NaN. The     *)
(* coefficient cov / sqrt(vx * vy) is kept as [nan, cov, vx, vy].          *)
(***************************************************************************)
RECURSIVE SumInt(_)
SumInt(xs) == IF xs = <<>> THEN 0 ELSE xs[1] + SumInt(Tail(xs))

HasBtcClose(row) == ~row.close_btc.isna

Undefined == [nan |-> TRUE, cov |-> 0, vx |-> 0, vy |-> 0]

Correlation(merged_data) ==
    LET valid == SelectSeq(merged_data, HasBtcClose)
        n == Len(valid)
        x == [k \in 1..n |-> valid[k].close]
        y == [k \in 1..n |-> valid[k].close_btc.v]
        sx == SumInt(x)
        sy == SumInt(y)
        cov == n * SumInt([k \in 1..n |-> x[k] * y[k]]) - sx * sy
        vx == n * SumInt([k \in 1..n |-> x[k] * x[k]]) - sx * sx
        vy == n * SumInt([k \in 1..n |-> y[k] * y[k]]) - sy * sy
    IN IF n < 2 \/ vx = 0 \/ vy = 0 THEN Undefined
       ELSE [nan |-> FALSE, cov |-> cov, vx |-> vx, vy |-> vy]

\* A faulty variant of AtLeast: correlation > correlation_threshold.
MoreThan(c, threshold) ==
    /\ ~c.nan
    /\ c.cov > 0
    /\ c.cov * c.cov * threshold[2] * threshold[2] > threshold[1] * threshold[1] * c.vx * c.vy

\* correlation >= threshold, for a threshold > 0; a comparison with NaN is False.
AtLeast(c, threshold) ==
    /\ ~c.nan
    /\ c.cov > 0
    /\ c.cov * c.cov * threshold[2] * threshold[2] >= threshold[1] * threshold[1] * c.vx * c.vy

\* The body of graph's loop for one classified candidate; the figure is
\* kept as the names of its two traces.
GraphBody(acc, symbol, altcoin_rows, btc_rows) ==
    LET merged_data == MergeAsofClose(altcoin_rows, btc_rows)
        correlation == Correlation(merged_data)
    IN IF AtLeast(correlation, correlation_threshold)
       THEN Append(acc, [symbol |-> symbol, graph |-> <<BTCUSDT, symbol>>])
       ELSE acc

(***************************************************************************)
(* The handlers' other pure steps.                                         *)
(***************************************************************************)
IsTicker(symbol) == symbol # BTCUSDT /\ symbol.quote = "USDT"

\* [symbol for symbol in markets.keys() if symbol != 'BTC/USDT' and symbol.endswith('/USDT')]
TickerSymbols(markets) == SelectSeq(markets, IsTicker)

Min(a, b) == IF a <= b THEN a ELSE b

\* A faulty variant of Zip: the failed fetches filtered out of results before the zip.
ZipDroppingNone(symbols, frames) ==
    LET fetched(frame) == ~frame.none
        kept == SelectSeq(frames, fetched)
    IN [k \in 1..Min(Len(symbols), Len(kept)) |-> <<symbols[k], kept[k]>>]

\* zip(ticker_symbols, results)
Zip(symbols, frames) ==
    [k \in 1..Min(Len(symbols), Len(frames)) |-> <<symbols[k], frames[k]>>]

NoResponse == [kind |-> "none", name |-> "", data |-> <<>>]

\* templates.TemplateResponse(name, {"request": request, <key>: data})
TemplateResponse(name, data) == [kind |-> "TemplateResponse", name |-> name, data |-> data]

\* JSONResponse(content={"error": "BTC/USDT data could not be fetched"})
JSONError == [kind |-> "JSONResponse", name |-> "error: BTC/USDT data could not be fetched", data |-> <<>>]

\* An exception that leaves the handler: the framework answers 500.
ServerError == [kind |-> "InternalServerError", name |-> "", data |-> <<>>]

\* What each handler returns when btc_data is None.
EarlyResponse(h) == IF h = "index" THEN TemplateResponse("index.html", <<>>) ELSE JSONError

\* What each handler returns at its end.
FinalResponse(h, found, selected) ==
    IF h = "index" THEN TemplateResponse("index.html", found)
    ELSE TemplateResponse("graph.html", selected)

(***************************************************************************)
(* What the exchange can serve. A series is a sequence of bars with        *)
(* strictly increasing timestamps.                                         *)
(***************************************************************************)
SeriesOf(maxLen, times, closes) ==
    {s \in UNION {[1..n -> times \X closes] : n \in 0..maxLen} :
        \A k \in 1..(Len(s) - 1) : s[k][1] < s[k + 1][1]}

Seconds(S) == {t * MsPerSec : t \in S}

GeneralSeries == SeriesOf(MaxLen, Seconds(0..MaxTime), 1..MaxClose)

PairSeries == SeriesOf(MaxPairLen, Seconds(0..(MaxPairLen - 1)), {1, 2})

\* Scenario 1 of the specification: the reference bars and the candidate's.
ScenarioBtc == <<<<0, 100>>, <<60 * MsPerSec, 105>>, <<120 * MsPerSec, 103>>>>
ScenarioAlt == <<<<70 * MsPerSec, 50>>, <<130 * MsPerSec, 49>>>>
ScenarioSeries == SeriesOf(2, Seconds({70, 130}), {49, 50})

\* Closes whose correlation with ThresholdBtc's is 4/5, about 0.64, 1, -1 and undefined.
ThresholdBtc == <<<<0, 2>>, <<1 * MsPerSec, 1>>, <<2 * MsPerSec, 5>>, <<3 * MsPerSec, 4>>>>
ThresholdCloses == {<<1, 2, 4, 5>>, <<1, 3, 4, 5>>, <<2, 1, 5, 4>>, <<4, 5, 1, 2>>, <<3, 3, 3, 3>>}
ThresholdSeries ==
    {[k \in 1..4 |-> <<(k - 1) * MsPerSec, c[k]>>] : c \in ThresholdCloses}
        \cup {<<>>, <<<<3 * MsPerSec, 1>>>>, <<<<2 * MsPerSec, 1>>, <<3 * MsPerSec, 2>>>>}

\* The keys of exchange.load_markets(), in the order the exchange lists them.
Markets(f) ==
    CASE f = "general" -> <<BTCUSDT, ETHUSDT, ETHBTC>>
      [] f = "pair" -> <<ETHUSDT, BTCUSDT, ETHBTC, LTCUSDT>>
      [] f = "scenario" -> <<BTCUSDT, ETHBTC, ETHUSDT, LTCUSDT>>
      [] f = "threshold" -> <<ETHUSDT, ETHBTC, BTCUSDT, LTCUSDT>>

\* The bars fetch_ohlcv can return for a symbol.
Bars(f, symbol) ==
    CASE f = "general" -> GeneralSeries
      [] f = "pair" -> PairSeries
      [] f = "scenario" -> IF symbol = BTCUSDT THEN {ScenarioBtc} ELSE ScenarioSeries
      [] f = "threshold" -> IF symbol = BTCUSDT THEN {ThresholdBtc} ELSE ThresholdSeries

\* The outcomes of one fetch_ohlcv call: the bars, or an exception.
Outcomes(f, symbol) ==
    {[raised |-> FALSE, bars |-> b] : b \in Bars(f, symbol)}
        \cup {[raised |-> TRUE, bars |-> <<>>]}

(***************************************************************************)
(* The state machine: one request, served by index or by graph.            *)
(***************************************************************************)
InitIn(f) ==
    /\ feed = f
    /\ handler = "none"
    /\ pc = "idle"
    /\ exchange = "none"
    /\ ohlcv_btc = <<>>
    /\ ohlcv = <<>>
    /\ btc_data = None
    /\ ticker_symbols = <<>>
    /\ pending = {}
    /\ results = <<>>
    /\ i = 1
    /\ matching_results = <<>>
    /\ graphs = <<>>
    /\ response = NoResponse

Init == InitIn("general")

\* A request arrives at a route: exchange = ccxt.binance().
Request ==
    /\ pc = "idle"
    /\ \E h \in {"index", "graph"} : handler' = h
    /\ exchange' = "open"
    /\ pc' = "fetch_btc"
    /\ UNCHANGED <<feed, ohlcv_btc, ohlcv, btc_data, ticker_symbols, pending, results, i,
                   matching_results, graphs, response>>

\* btc_data = await fetch_data(exchange, 'BTC/USDT')
FetchBtc ==
    /\ pc = "fetch_btc"
    /\ \E outcome \in Outcomes(feed, BTCUSDT) :
          /\ ohlcv_btc' = outcome.bars
          /\ btc_data' = fetch_data(outcome)
    /\ pc' = "check_btc"
    /\ UNCHANGED <<feed, handler, exchange, ohlcv, ticker_symbols, pending, results, i,
                   matching_results, graphs, response>>

\* if btc_data is None: return ...
ReturnEarly ==
    /\ pc = "check_btc"
    /\ btc_data.none
    /\ response' = EarlyResponse(handler)
    /\ pc' = "done"
    /\ UNCHANGED <<feed, handler, exchange, ohlcv_btc, ohlcv, btc_data, ticker_symbols,
                   pending, results, i, matching_results, graphs>>

\* btc_data = get_price_changes(btc_data)
ClassifyBtc ==
    /\ pc = "check_btc"
    /\ ~btc_data.none
    /\ btc_data' = get_price_changes(btc_data)
    /\ pc' = "load_markets"
    /\ UNCHANGED <<feed, handler, exchange, ohlcv_btc, ohlcv, ticker_symbols, pending,
                   results, i, matching_results, graphs, response>>

\* markets = await exchange.load_markets(); the symbols are filtered, one
\* fetch_data task is created per symbol and the accumulator starts empty.
LoadMarkets ==
    /\ pc = "load_markets"
    /\ ticker_symbols' = TickerSymbols(Markets(feed))
    /\ pending' = 1..Len(ticker_symbols')
    /\ results' = [k \in 1..Len(ticker_symbols') |-> None]
    /\ ohlcv' = [k \in 1..Len(ticker_symbols') |-> <<>>]
    /\ pc' = IF pending' = {} THEN "loop" ELSE "gather"
    /\ UNCHANGED <<feed, handler, exchange, ohlcv_btc, btc_data, i, matching_results,
                   graphs, response>>

\* load_markets raises: nothing in the handler catches it.
LoadMarketsRaises ==
    /\ pc = "load_markets"
    /\ response' = ServerError
    /\ pc' = "done"
    /\ UNCHANGED <<feed, handler, exchange, ohlcv_btc, ohlcv, btc_data, ticker_symbols,
                   pending, results, i, matching_results, graphs>>

\* One of the gathered fetch_data tasks finishes; asyncio.gather returns
\* when the last one has.
FetchTask(k) ==
    /\ pc = "gather"
    /\ k \in pending
    /\ \E outcome \in Outcomes(feed, ticker_symbols[k]) :
          /\ ohlcv' = [ohlcv EXCEPT ![k] = outcome.bars]
          /\ results' = [results EXCEPT ![k] = fetch_data(outcome)]
    /\ pending' = pending \ {k}
    /\ pc' = IF pending' = {} THEN "loop" ELSE "gather"
    /\ UNCHANGED <<feed, handler, exchange, ohlcv_btc, btc_data, ticker_symbols, i,
                   matching_results, graphs, response>>

\* One pass of `for symbol, altcoin_data in zip(ticker_symbols, results)`
\* whose altcoin_data is None: continue.
SkipNone ==
    /\ pc = "loop"
    /\ i <= Len(Zip(ticker_symbols, results))
    /\ Zip(ticker_symbols, results)[i][2].none
    /\ i' = i + 1
    /\ UNCHANGED <<feed, handler, pc, exchange, ohlcv_btc, ohlcv, btc_data, ticker_symbols,
                   pending, results, matching_results, graphs, response>>

\* One pass of index's loop over a fetched candidate. get_price_changes
\* adds its columns to the frame in place, so the frame in results changes.
IndexPass ==
    /\ pc = "loop"
    /\ handler = "index"
    /\ i <= Len(Zip(ticker_symbols, results))
    /\ LET symbol == Zip(ticker_symbols, results)[i][1]
           altcoin_data == Zip(ticker_symbols, results)[i][2]
       IN /\ ~altcoin_data.none
          /\ results' = [results EXCEPT ![i] = get_price_changes(altcoin_data)]
          /\ matching_results' =
                IndexBody(matching_results, symbol, get_price_changes(altcoin_data).rows,
                          btc_data.rows)
    /\ i' = i + 1
    /\ UNCHANGED <<feed, handler, pc, exchange, ohlcv_btc, ohlcv, btc_data, ticker_symbols,
                   pending, graphs, response>>

\* One pass of graph's loop over a fetched candidate.
GraphPass ==
    /\ pc = "loop"
    /\ handler = "graph"
    /\ i <= Len(Zip(ticker_symbols, results))
    /\ LET symbol == Zip(ticker_symbols, results)[i][1]
           altcoin_data == Zip(ticker_symbols, results)[i][2]
       IN /\ ~altcoin_data.none
          /\ results' = [results EXCEPT ![i] = get_price_changes(altcoin_data)]
          /\ graphs' =
                GraphBody(graphs, symbol, get_price_changes(altcoin_data).rows, btc_data.rows)
    /\ i' = i + 1
    /\ UNCHANGED <<feed, handler, pc, exchange, ohlcv_btc, ohlcv, btc_data, ticker_symbols,
                   pending, matching_results, response>>

\* After the loop: await exchange.close(), then the template response.
CloseAndReturn ==
    /\ pc = "loop"
    /\ i > Len(Zip(ticker_symbols, results))
    /\ exchange' = "closed"
    /\ response' = FinalResponse(handler, matching_results, graphs)
    /\ pc' = "done"
    /\ UNCHANGED <<feed, handler, ohlcv_btc, ohlcv, btc_data, ticker_symbols, pending,
                   results, i, matching_results, graphs>>

Next ==
    \/ Request
    \/ FetchBtc
    \/ ReturnEarly
    \/ ClassifyBtc
    \/ LoadMarkets
    \/ LoadMarketsRaises
    \/ \E k \in pending : FetchTask(k)
    \/ SkipNone
    \/ IndexPass
    \/ GraphPass
    \/ CloseAndReturn

\* One candidate, series drawn from the general feed.
Spec == Init /\ [][Next]_vars

InitPair == InitIn("pair")

\* Two candidates, short series.
SpecPair == InitPair /\ [][Next]_vars

InitScenario == InitIn("scenario")

\* The reference of scenario 1, candidates over the scenario's bars.
SpecScenario == InitScenario /\ [][Next]_vars

InitThreshold == InitIn("threshold")

\* A fixed reference, candidates on both sides of the correlation threshold.
SpecThreshold == InitThreshold /\ [][Next]_vars

(***************************************************************************)
(* The properties. They are stated over what the exchange returned         *)
(* (ohlcv_btc, ohlcv) and what the handler holds and answers.              *)
(***************************************************************************)
\* The handler ran to its last line.
Completed(h) == pc = "done" /\ handler = h /\ exchange = "closed"

Fetched(k) == k \in 1..Len(results) /\ k \notin pending /\ ~results[k].none

RefTimes == {ohlcv_btc[j][1] : j \in 1..Len(ohlcv_btc)}

\* The label the classification rule gives bar n of a series of raw bars.
RuleLabel(bars, n) == IF n > 1 /\ bars[n][2] > bars[n - 1][2] THEN UP ELSE DOWN

\* Reference bar j is the one candidate time t is aligned to.
AlignedTo(j, t) ==
    /\ ohlcv_btc[j][1] <= t
    /\ \A j2 \in 1..Len(ohlcv_btc) : ohlcv_btc[j2][1] <= t => ohlcv_btc[j2][1] <= ohlcv_btc[j][1]

\* Bar n of candidate k is aligned to a reference bar of the same direction.
Agrees(k, n) ==
    \E j \in 1..Len(ohlcv_btc) :
        AlignedTo(j, ohlcv[k][n][1]) /\ RuleLabel(ohlcv_btc, j) = RuleLabel(ohlcv[k], n)

EntriesOf(symbol) == {e \in 1..Len(matching_results) : matching_results[e].altcoin_pair = symbol}

\* C1: every detail row of every entry has btc_time <= altcoin_time, btc_time
\* is the greatest reference timestamp that is <= altcoin_time, and every
\* mean delay is >= 0.
AlignmentNeverLooksAhead ==
    \A e \in 1..Len(matching_results) :
        /\ \A r \in 1..Len(matching_results[e].full_data) :
              LET row == matching_results[e].full_data[r]
              IN /\ row.btc_time <= row.altcoin_time
                 /\ row.btc_time \in RefTimes
                 /\ \A t \in RefTimes : t <= row.altcoin_time => t <= row.btc_time
        /\ \A g \in 1..Len(matching_results[e].result) :
              /\ matching_results[e].result[g].time_delay[1] >= 0
              /\ matching_results[e].result[g].time_delay[2] > 0

\* A detail row matched to an earlier reference bar while a later reference
\* bar exists that a look ahead would have taken.
AlignedBehindLaterBar ==
    \E e \in 1..Len(matching_results) : \E r \in 1..Len(matching_results[e].full_data) :
        LET row == matching_results[e].full_data[r]
        IN /\ row.btc_time < row.altcoin_time
           /\ \E t \in RefTimes : t > row.altcoin_time

\* What the analysis of candidate k alone contributes to each report.
AloneInIndex(k) ==
    IndexBody(<<>>, ticker_symbols[k], get_price_changes(DataFrame(ohlcv[k])).rows,
              get_price_changes(DataFrame(ohlcv_btc)).rows)

AloneInGraph(k) ==
    GraphBody(<<>>, ticker_symbols[k], get_price_changes(DataFrame(ohlcv[k])).rows,
              get_price_changes(DataFrame(ohlcv_btc)).rows)

RECURSIVE Isolated(_, _)
\* The report built from the fetched candidates 1..k, each analysed alone.
Isolated(h, k) ==
    IF k = 0 THEN <<>>
    ELSE Isolated(h, k - 1) \o
            (IF results[k].none THEN <<>>
             ELSE IF h = "index" THEN AloneInIndex(k) ELSE AloneInGraph(k))

\* C2: once the candidates' fetches were gathered, whichever of them failed,
\* the handler ends with its template response, a failed symbol has no entry,
\* and the report is that of the fetched candidates, each analysed alone.
FetchFailureIsolation ==
    (pc = "done" /\ Len(results) > 0) =>
        /\ Completed(handler)
        /\ response = FinalResponse(handler, Isolated("index", Len(results)),
                                    Isolated("graph", Len(results)))
        /\ \A k \in 1..Len(results) : results[k].none =>
              \A e \in 1..Len(response.data) :
                 IF handler = "index" THEN response.data[e].altcoin_pair # ticker_symbols[k]
                 ELSE response.data[e].symbol # ticker_symbols[k]

\* The first candidate's fetch failed and the second, fetched, is reported.
FailedThenReported ==
    /\ pc = "done"
    /\ Len(results) = 2
    /\ results[1].none
    /\ ~results[2].none
    /\ Len(response.data) = 1

IsScenarioCandidate(k) == Fetched(k) /\ ohlcv[k] = ScenarioAlt

TenSeconds == <<10, 1>>

\* C3, as claimed: in scenario 1 both candidate rows agree with the
\* reference, the t=70s row as UP and the t=130s row as DOWN, and the report
\* has a delay of 10 seconds for UP and one of 10 seconds for DOWN.
ScenarioBothRowsAgree ==
    \A k \in 1..Len(results) : (Completed("index") /\ IsScenarioCandidate(k)) =>
        \E e \in EntriesOf(ticker_symbols[k]) :
            /\ Len(response.data[e].full_data) = 2
            /\ response.data[e].full_data[1].direction = UP
            /\ response.data[e].full_data[2].direction = DOWN
            /\ \E g \in 1..Len(response.data[e].result) :
                  /\ response.data[e].result[g].direction_btc = UP
                  /\ response.data[e].result[g].time_delay = TenSeconds
            /\ \E g \in 1..Len(response.data[e].result) :
                  /\ response.data[e].result[g].direction_btc = DOWN
                  /\ response.data[e].result[g].time_delay = TenSeconds

\* C3, amended: in scenario 1 the candidate's first bar (t=70s) is labelled
\* DOWN and disagrees with the UP reference bar it is aligned to; only the
\* t=130s row agrees, as DOWN, and the report has the single delay record
\* DOWN with a delay of 10 seconds.
ScenarioOnlyDownAgrees ==
    \A k \in 1..Len(results) : (Completed("index") /\ IsScenarioCandidate(k)) =>
        /\ results[k].rows[1].direction = DOWN
        /\ Cardinality(EntriesOf(ticker_symbols[k])) = 1
        /\ \A e \in EntriesOf(ticker_symbols[k]) :
              /\ Len(response.data[e].full_data) = 1
              /\ response.data[e].full_data[1].altcoin_time = 130 * MsPerSec
              /\ response.data[e].full_data[1].btc_time = 120 * MsPerSec
              /\ response.data[e].full_data[1].direction = DOWN
              /\ Len(response.data[e].result) = 1
              /\ response.data[e].result[1].direction_btc = DOWN
              /\ response.data[e].result[1].time_delay = TenSeconds

\* index completed on scenario 1's reference and candidate.
ScenarioAnalysed ==
    /\ Completed("index")
    /\ ohlcv_btc = ScenarioBtc
    /\ \E k \in 1..Len(results) : IsScenarioCandidate(k)

\* The first detail row of entry e whose direction is d (0 when there is none).
FirstRowOf(e, d) ==
    LET R == {r \in 1..Len(matching_results[e].full_data) :
                 matching_results[e].full_data[r].direction = d}
    IN IF R = {} THEN 0 ELSE CHOOSE r \in R : \A r2 \in R : r <= r2

\* Exactly one delay record per direction present among the agreeing rows.
OneRecordPerDirection(e) ==
    LET recs == matching_results[e].result
        rows == matching_results[e].full_data
    IN /\ \A g, g2 \in 1..Len(recs) : recs[g].direction_btc = recs[g2].direction_btc => g = g2
       /\ \A g \in 1..Len(recs) : FirstRowOf(e, recs[g].direction_btc) # 0
       /\ \A r \in 1..Len(rows) : \E g \in 1..Len(recs) : recs[g].direction_btc = rows[r].direction

\* C4, as claimed: one delay record per direction present among the agreeing
\* rows, in the order in which the directions are first encountered.
RecordsInFirstSeenOrder ==
    \A e \in 1..Len(matching_results) :
        /\ OneRecordPerDirection(e)
        /\ \A g, g2 \in 1..Len(matching_results[e].result) :
              g < g2 => FirstRowOf(e, matching_results[e].result[g].direction_btc)
                            < FirstRowOf(e, matching_results[e].result[g2].direction_btc)

\* C4, amended: one delay record per direction present among the agreeing
\* rows, in the sorted order of the labels: the UP record ('рост') before
\* the DOWN record ('спад'), whichever direction is encountered first.
RecordsInLabelOrder ==
    \A e \in 1..Len(matching_results) :
        /\ OneRecordPerDirection(e)
        /\ \A g, g2 \in 1..Len(matching_results[e].result) :
              g < g2 => /\ matching_results[e].result[g].direction_btc = UP
                        /\ matching_results[e].result[g2].direction_btc = DOWN

\* An entry whose first agreeing row is DOWN and a later one UP.
DownSeenBeforeUp ==
    \E e \in 1..Len(matching_results) :
        /\ Len(matching_results[e].result) = 2
        /\ matching_results[e].full_data[1].direction = DOWN
        /\ FirstRowOf(e, UP) > 1

\* The bars of candidate k, as the exchange returned them, that agree with
\* the reference bar they are aligned to and have direction d.
GroupBars(k, d) ==
    {n \in 1..Len(ohlcv[k]) : Agrees(k, n) /\ RuleLabel(ohlcv[k], n) = d}

RECURSIVE SumOver(_, _, _)
\* The sum over the bars N of candidate k of (timestamp - matched reference
\* timestamp), in ms.
SumOver(k, N, acc) ==
    IF N = {} THEN acc
    ELSE LET n == CHOOSE x \in N : TRUE
             t == ohlcv[k][n][1]
             ref == CHOOSE j \in 1..Len(ohlcv_btc) : AlignedTo(j, t)
         IN SumOver(k, N \ {n}, acc + (t - ohlcv_btc[ref][1]))

\* C5: every reported time_delay is the arithmetic mean, in seconds, of
\* (candidate timestamp - matched reference timestamp) over exactly the
\* agreeing rows of its direction group.
MeanDelayCorrect ==
    \A k \in 1..Len(results) : \A e \in EntriesOf(ticker_symbols[k]) :
        \A g \in 1..Len(matching_results[e].result) :
            LET rec == matching_results[e].result[g]
                N == GroupBars(k, rec.direction_btc)
            IN /\ N # {}
               /\ rec.time_delay[2] > 0
               /\ rec.time_delay[1] * MsPerSec * Cardinality(N)
                     = rec.time_delay[2] * SumOver(k, N, 0)

\* A group of three rows with three different delays.
GroupOfThreeDelays ==
    \E e \in 1..Len(matching_results) : \E g \in 1..Len(matching_results[e].result) :
        LET rows == matching_results[e].full_data
            R == {r \in 1..Len(rows) :
                     rows[r].direction = matching_results[e].result[g].direction_btc}
        IN /\ Cardinality(R) = 3
           /\ \A r, r2 \in R :
                 r # r2 => rows[r].altcoin_time - rows[r].btc_time
                              # rows[r2].altcoin_time - rows[r2].btc_time
           /\ matching_results[e].result[g].time_delay[1] > 0

\* C6: when index completes, a fetched candidate has an entry in the report
\* if and only if one of its bars is aligned to a reference bar of the same
\* direction, it has at most one entry, and the handler answers its template.
ReportMembership ==
    Completed("index") =>
        /\ response = TemplateResponse("index.html", matching_results)
        /\ \A k \in 1..Len(results) : Fetched(k) =>
              /\ Cardinality(EntriesOf(ticker_symbols[k])) <= 1
              /\ (EntriesOf(ticker_symbols[k]) # {}) <=> (\E n \in 1..Len(ohlcv[k]) : Agrees(k, n))

\* index completed on a fetched candidate with bars, none of which has a
\* reference bar at or before it, and the report is empty.
NoBarAlignedNoEntry ==
    /\ Completed("index")
    /\ ohlcv_btc # <<>>
    /\ \E k \in 1..Len(results) :
          /\ Fetched(k)
          /\ ohlcv[k] # <<>>
          /\ \A n \in 1..Len(ohlcv[k]) : \A t \in RefTimes : t > ohlcv[k][n][1]
    /\ response.data = <<>>

\* C7: when the reference series is unavailable or empty, the handler's
\* answer differs from the answer of a successful analysis in which no
\* candidate produced an entry.
ReferenceFailureDistinguishable ==
    (pc = "done" /\ (btc_data.none \/ ohlcv_btc = <<>>)) =>
        response # FinalResponse(handler, <<>>, <<>>)

\* The aligned close pairs of candidate k: <<candidate close, reference close>>
\* by candidate bar.
AlignedBars(k) ==
    {n \in 1..Len(ohlcv[k]) : \E j \in 1..Len(ohlcv_btc) : AlignedTo(j, ohlcv[k][n][1])}

RefClose(k, n) ==
    ohlcv_btc[CHOOSE j \in 1..Len(ohlcv_btc) : AlignedTo(j, ohlcv[k][n][1])][2]

RECURSIVE PairSum(_, _, _)
\* The sum over the pairs a < b of aligned bars of F(a, b).
PairSum(F(_, _), P, acc) ==
    IF P = {} THEN acc
    ELSE LET p == CHOOSE x \in P : TRUE IN PairSum(F, P \ {p}, acc + F(p[1], p[2]))

\* Pearson's r of candidate k over its aligned pairs is defined and >= 4/5:
\* with S(f) the sum of f over the pairs of aligned bars, r is
\* S(dx * dy) / sqrt(S(dx * dx) * S(dy * dy)).
PearsonAtLeastThreshold(k) ==
    LET P == {p \in AlignedBars(k) \X AlignedBars(k) : p[1] < p[2]}
        dx(a, b) == ohlcv[k][a][2] - ohlcv[k][b][2]
        dy(a, b) == RefClose(k, a) - RefClose(k, b)
        xy(a, b) == dx(a, b) * dy(a, b)
        xx(a, b) == dx(a, b) * dx(a, b)
        yy(a, b) == dy(a, b) * dy(a, b)
        cov == PairSum(xy, P, 0)
        vx == PairSum(xx, P, 0)
        vy == PairSum(yy, P, 0)
    IN /\ Cardinality(AlignedBars(k)) >= 2
       /\ vx > 0
       /\ vy > 0
       /\ cov > 0
       /\ 25 * cov * cov >= 16 * vx * vy

Retained(k) == Fetched(k) /\ PearsonAtLeastThreshold(k)

RECURSIVE RetainedSymbols(_)
RetainedSymbols(k) ==
    IF k = 0 THEN <<>>
    ELSE IF Retained(k) THEN Append(RetainedSymbols(k - 1), ticker_symbols[k])
    ELSE RetainedSymbols(k - 1)

\* C8: when graph completes, the retained candidates are exactly the fetched
\* ones whose correlation with the reference over the aligned close pairs is
\* defined and >= 0.8, in the order in which they were processed; a candidate
\* with fewer than 2 aligned points is not retained.
CorrelationSelection ==
    Completed("graph") =>
        /\ response.kind = "TemplateResponse"
        /\ response.name = "graph.html"
        /\ Column(response.data, "symbol") = RetainedSymbols(Len(results))
        /\ \A k \in 1..Len(results) :
              Cardinality(AlignedBars(k)) < 2 =>
                 \A e \in 1..Len(response.data) : response.data[e].symbol # ticker_symbols[k]

\* graph completed: the first candidate's closes <<1, 2, 4, 5>> correlate
\* with the reference's at exactly 4/5 and it is retained; the second has
\* a single aligned point and is not.
ThresholdRetainedOnePointNot ==
    /\ Completed("graph")
    /\ Len(results) = 2
    /\ Fetched(1)
    /\ [n \in 1..Len(ohlcv[1]) |-> ohlcv[1][n][2]] = <<1, 2, 4, 5>>
    /\ Fetched(2)
    /\ Cardinality(AlignedBars(2)) = 1
    /\ Column(response.data, "symbol") = <<ticker_symbols[1]>>

\* The frame of raw bars `bars` was classified into `rows`: same length and
\* order, the first bar DOWN, a later bar UP iff its close is above its
\* predecessor's and DOWN otherwise.
ClassifiedByRule(bars, rows) ==
    /\ Len(rows) = Len(bars)
    /\ \A n \in 1..Len(bars) :
          /\ rows[n].timestamp = bars[n][1]
          /\ rows[n].close = bars[n][2]
          /\ rows[n].direction \in {UP, DOWN}
          /\ n = 1 => rows[n].direction = DOWN
          /\ n > 1 => (rows[n].direction = UP <=> bars[n][2] > bars[n - 1][2])

BtcClassified == pc \in {"load_markets", "gather", "loop"} \/ (pc = "done" /\ ~btc_data.none)

AltClassified(k) == pc \in {"loop", "done"} /\ k < i /\ Fetched(k)

\* C9: every series get_price_changes has classified has the length and
\* order of the fetched one, its first bar labelled DOWN, and each later bar
\* labelled UP if and only if its close is above its predecessor's.
DirectionClassifier ==
    /\ BtcClassified => ClassifiedByRule(ohlcv_btc, btc_data.rows)
    /\ \A k \in 1..Len(results) : AltClassified(k) => ClassifiedByRule(ohlcv[k], results[k].rows)

\* A classified candidate of three bars: the second repeats the first's
\* close and is DOWN, the third rises and is UP.
UnchangedDownThenUp ==
    \E k \in 1..Len(results) :
        /\ AltClassified(k)
        /\ Len(ohlcv[k]) = 3
        /\ ohlcv[k][2][2] = ohlcv[k][1][2]
        /\ results[k].rows[2].direction = DOWN
        /\ results[k].rows[3].direction = UP

\* C10: whenever a handler has returned, the exchange handle it created is
\* closed.
HandleClosedOnReturn == pc = "done" => exchange = "closed"

====
